---- MODULE Spec2Model ----
(***************************************************************************)
(* A model of moo2.py, the MOO2 saved game editor: typed views (Star,      *)
(* Planet, Colony, Player) over one byte buffer, Game.data, and the        *)
(* operations that mutate it.  The buffer is modelled byte for byte at the *)
(* file's own offsets, over the window of the file that holds the last     *)
(* WindowPlanets planet records and the first NumStars star records.       *)
(***************************************************************************)
EXTENDS Integers, Sequences, FiniteSets, TLC

VARIABLES data, maxplanet, numplayers, last, nops

vars == <<data, maxplanet, numplayers, last, nops>>

(***************************************************************************)
(* Bounds of the model.                                                    *)
(***************************************************************************)
\* Star records 0..NumStars-1 lie in the modelled window of the buffer.
NumStars == 3
\* The last WindowPlanets planet records lie in the modelled window.
WindowPlanets == 4
\* Game.maxplanet is followed up to this value (the code never caps it).
MaxCounter == 360
\* Number of setter or view operations followed from one loaded record.
MaxOps == 1

(***************************************************************************)
(* Constants of the program.                                               *)
(***************************************************************************)
\* Star.block_offset = 0x17ad3
Star_block_offset == 96979
\* Star.max_stars
max_stars == 72
\* Star.block_size = 0x71
Star_block_size == 113
\* Star.planet_offset = 0x4a
planet_offset == 74
\* Player.max_players
max_players == 8
\* Colony.max_colonies
max_colonies == 360
\* Planet.block_offset = 0x162e9
Planet_block_offset == 90857
\* Planet.max_planets
max_planets == 360
\* Planet.block_size = 0x11
Planet_block_size == 17
\* the "no planet" / "no colony" value of a two-byte field, 0xffff
NoRef == 65535

\* Python's None, as the result of a call or a field of a call record.
None == -1

type2desc == [c \in {1, 2, 3} |-> CASE c = 1 -> "asteroid" [] c = 2 -> "gas giant" [] c = 3 -> "planet"]
terraform2desc == <<"toxic", "radiated", "barren", "desert", "tundra", "ocean", "swamp", "arid", "terran", "gaia">>
terraform2food == <<0, 0, 0, 1, 1, 2, 2, 1, 2, 3>>
size2desc == <<"tiny", "small", "medium", "large", "huge">>
size2blockd == <<2, 4, 5, 7, 10>>
gravity2desc == <<"LG", "NG", "HG">>
richness2desc == <<"ultra poor", "poor", "abundant", "rich", "ultra rich">>

\* random.Random(seed).randrange(3) for seed = 0..99 (Mersenne Twister,
\* int(random() * 3)); entry seed+1 of the sequence.
randrange3 == <<2, 0, 2, 0, 0, 1, 2, 0, 0, 1, 1, 1, 1, 0, 0, 2, 1, 1, 0, 2,
                2, 0, 2, 2, 2, 1, 2, 1, 0, 1, 1, 0, 0, 1, 1, 1, 0, 2, 1, 0,
                1, 1, 1, 0, 1, 0, 2, 1, 1, 0, 1, 0, 2, 1, 2, 0, 2, 0, 1, 0,
                0, 1, 2, 1, 1, 1, 0, 0, 2, 2, 2, 0, 0, 0, 2, 1, 1, 2, 2, 0,
                0, 1, 0, 1, 2, 0, 2, 0, 1, 0, 0, 0, 1, 2, 1, 2, 1, 0, 1, 1>>

(***************************************************************************)
(* The window of the buffer, and the views' offsets.                       *)
(***************************************************************************)
ModelStars == 0 .. NumStars - 1
FirstPlanet == max_planets - WindowPlanets
ModelPlanets == FirstPlanet .. max_planets - 1
Positions == 0 .. 4

\* Star.__init__: self.offset
Star_offset(number) == Star_block_offset + number * Star_block_size
\* Planet.__init__: self.offset
Planet_offset(number) == Planet_block_offset + number * Planet_block_size

\* Star.__init__ raises ValueError
Star_init_raises(number) == number < 0 \/ number >= max_stars
\* Planet.__init__ raises ValueError
Planet_init_raises(number) == number < 0 \/ number >= max_planets
\* Colony.__init__ raises ValueError
Colony_init_raises(number) == number < 0 \/ number >= max_colonies
\* Player.__init__ raises ValueError; np is game.numplayers
Player_init_raises(np, number) == number < 0 \/ number >= np

\* the address of slot pos of the planet table of star snum
slot_offset(snum, pos) == Star_offset(snum) + planet_offset + 2 * pos

\* the modelled bytes of the buffer: the planet records of the window, and
\* of each star record its first byte and its table of planet slots
Offsets ==
    (Planet_offset(FirstPlanet) .. Planet_offset(max_planets) - 1)
    \cup UNION {{Star_offset(s)} \cup (slot_offset(s, 0) .. slot_offset(s, 4) + 1) : s \in ModelStars}

\* Game.short_at_offset
short_at_offset(d, o) == d[o] + d[o + 1] * 256

\* set_short_at_offset with the high byte left as it was
set_short_low_only(d, o, value) ==
    [d EXCEPT ![o] = value % 256]

\* Game.set_short_at_offset: the high byte is written first
set_short_at_offset(d, o, value) ==
    [d EXCEPT ![o + 1] = value \div 256, ![o] = value % 256]

\* Star.exists
Star_exists(d, snum) == d[Star_offset(snum)] # 0

\* Planet.starnum, Planet.position
Planet_starnum(d, n) == d[Planet_offset(n) + 2]
Planet_position(d, n) == d[Planet_offset(n) + 3]

(***************************************************************************)
(* A call's outcome: the exception it raised ("none" when it returned),    *)
(* the value it returned, and the buffer and counter it left.              *)
(***************************************************************************)
Outcome(exc, ret, d, mp) == [exc |-> exc, ret |-> ret, data |-> d, maxplanet |-> mp]

\* planet_at with only the low byte of the slot compared with the sentinel
planet_at_low_byte(d, snum, pos) ==
    IF ~(0 <= pos /\ pos <= 4)
    THEN [exc |-> "IndexError", ret |-> None]
    ELSE LET planet_num == short_at_offset(d, slot_offset(snum, pos))
         IN  IF planet_num % 256 = 255
             THEN [exc |-> "none", ret |-> None]
             ELSE IF Planet_init_raises(planet_num)
                  THEN [exc |-> "ValueError", ret |-> None]
                  ELSE [exc |-> "none", ret |-> planet_num]

\* Star.planet_at: the number of the planet view returned, or None
planet_at(d, snum, pos) ==
    IF ~(0 <= pos /\ pos <= 4)
    THEN [exc |-> "IndexError", ret |-> None]
    ELSE LET planet_num == short_at_offset(d, slot_offset(snum, pos))
         IN  IF planet_num = NoRef
             THEN [exc |-> "none", ret |-> None]
             ELSE IF Planet_init_raises(planet_num)
                  THEN [exc |-> "ValueError", ret |-> None]
                  ELSE [exc |-> "none", ret |-> planet_num]

\* Star.planets: the numbers of the planet views the iterator yields
Star_planets(d, snum) ==
    {short_at_offset(d, slot_offset(snum, pos)) : pos \in Positions} \ {NoRef}

\* Game.stars: the iterator stops at the first star that does not exist
Game_stars(d) ==
    {i \in ModelStars : \A j \in 0 .. i : Star_exists(d, j)}

SetMax(S) == CHOOSE x \in S : \A y \in S : y <= x

\* Game.__init__: self.maxplanet
Game_init_maxplanet(d) ==
    SetMax(UNION {Star_planets(d, s) : s \in Game_stars(d)})

\* newdata with the byte at 0xd left at the 0 of the fresh array
newdata_no_blockd(snum, pos, btype) ==
    [k \in 0 .. Planet_block_size - 1 |->
        CASE k = 0 -> 255
          [] k = 1 -> 255
          [] k = 2 -> snum
          [] k = 3 -> pos
          [] k = 4 -> btype
          [] k = 5 -> 3
          [] k = 6 -> 1
          [] k = 8 -> 2
          [] k = 9 -> randrange3[pos + btype * 5 + snum * 15 + 1]
          [] k = 10 -> 2
          [] OTHER -> 0]

\* the record Star.make_planet writes for a new planet: newdata
newdata(snum, pos, btype) ==
    [k \in 0 .. Planet_block_size - 1 |->
        CASE k = 0 -> 255
          [] k = 1 -> 255
          [] k = 2 -> snum
          [] k = 3 -> pos
          [] k = 4 -> btype
          [] k = 5 -> 3
          [] k = 6 -> 1
          [] k = 8 -> 2
          [] k = 9 -> randrange3[pos + btype * 5 + snum * 15 + 1]
          [] k = 10 -> 2
          [] k = 13 -> size2blockd[3 + 1]
          [] OTHER -> 0]

\* Star.make_planet
make_planet(d, mp, snum, pos, btype) ==
    LET at == planet_at(d, snum, pos)
    IN  IF at.exc # "none" THEN Outcome(at.exc, None, d, mp)
        ELSE IF at.ret # None THEN Outcome("ValueError", None, d, mp)
        ELSE IF ~(1 <= btype /\ btype <= 3) THEN Outcome("ValueError", None, d, mp)
        ELSE LET newnum == mp + 1
             IN  IF Planet_init_raises(newnum)
                 THEN Outcome("ValueError", None, d, newnum)
                 ELSE LET nd == newdata(snum, pos, btype)
                          d1 == [o \in Offsets |->
                                    IF Planet_offset(newnum) <= o
                                       /\ o < Planet_offset(newnum) + Planet_block_size
                                    THEN nd[o - Planet_offset(newnum)]
                                    ELSE d[o]]
                          d2 == set_short_at_offset(d1, slot_offset(snum, pos), newnum)
                      IN  Outcome("none", newnum, d2, newnum)

\* _setposition with the planets' position bytes both taken from the
\* planet that moves
setposition_one_sided(d, mp, n, pos) ==
    LET starnum == Planet_starnum(d, n)
        other == planet_at(d, starnum, pos)
        oldpos == Planet_position(d, n)
    IN  IF other.exc # "none" THEN Outcome(other.exc, None, d, mp)
        ELSE IF pos = oldpos THEN Outcome("none", None, d, mp)
        ELSE
        LET d1 == [d EXCEPT ![Planet_offset(n) + 3] = pos]
            aoffset == slot_offset(starnum, pos)
            boffset == slot_offset(starnum, oldpos)
            d2 == [d1 EXCEPT ![aoffset] = d1[boffset],
                             ![aoffset + 1] = d1[boffset + 1],
                             ![boffset] = d1[aoffset],
                             ![boffset + 1] = d1[aoffset + 1]]
        IN  Outcome("none", None, d2, mp)

\* _setposition with the star's table written at the new position only
setposition_no_vacate(d, mp, n, pos) ==
    LET starnum == Planet_starnum(d, n)
        other == planet_at(d, starnum, pos)
        oldpos == Planet_position(d, n)
    IN  IF other.exc # "none" THEN Outcome(other.exc, None, d, mp)
        ELSE IF pos = oldpos THEN Outcome("none", None, d, mp)
        ELSE
        LET d1 == IF other.ret # None
                  THEN [d EXCEPT ![Planet_offset(other.ret) + 3] = Planet_position(d, n),
                                 ![Planet_offset(n) + 3] = Planet_position(d, other.ret)]
                  ELSE [d EXCEPT ![Planet_offset(n) + 3] = pos]
            aoffset == slot_offset(starnum, pos)
            boffset == slot_offset(starnum, oldpos)
            d2 == [d1 EXCEPT ![aoffset] = d1[boffset],
                             ![aoffset + 1] = d1[boffset + 1]]
        IN  Outcome("none", None, d2, mp)

\* Planet._setposition, for the planet view of number n
setposition(d, mp, n, pos) ==
    LET starnum == Planet_starnum(d, n)
    IN  IF Star_init_raises(starnum) THEN Outcome("ValueError", None, d, mp)
        ELSE
        LET other == planet_at(d, starnum, pos)
            oldpos == Planet_position(d, n)
        IN  IF other.exc # "none" THEN Outcome(other.exc, None, d, mp)
            ELSE IF pos = oldpos THEN Outcome("none", None, d, mp)
            ELSE
            LET d1 == IF other.ret # None
                      THEN [d EXCEPT ![Planet_offset(other.ret) + 3] = Planet_position(d, n),
                                     ![Planet_offset(n) + 3] = Planet_position(d, other.ret)]
                      ELSE [d EXCEPT ![Planet_offset(n) + 3] = pos]
                aoffset == slot_offset(Planet_starnum(d1, n), pos)
                boffset == slot_offset(Planet_starnum(d1, n), oldpos)
                d2 == [d1 EXCEPT ![aoffset] = d1[boffset],
                                 ![aoffset + 1] = d1[boffset + 1],
                                 ![boffset] = d1[aoffset],
                                 ![boffset + 1] = d1[aoffset + 1]]
            IN  Outcome("none", None, d2, mp)

(***************************************************************************)
(* The record of the last call, as its caller sees it.                     *)
(***************************************************************************)
Call(op, self, arg, btype, label, exc, ret, other, oldpos) ==
    [op |-> op, self |-> self, arg |-> arg, btype |-> btype, label |-> label,
     exc |-> exc, ret |-> ret, other |-> other, oldpos |-> oldpos]

(***************************************************************************)
(* Loaded saves.  A save places planets first, first+1, ..., top at the    *)
(* (star, position) pairs of a placement; a star that does not exist has   *)
(* an empty planet table.                                                  *)
(***************************************************************************)
EveryStar == [s \in ModelStars |-> 65]
AllButStar(x) == [s \in ModelStars |-> IF s = x THEN 0 ELSE 65]

\* a save whose stars all exist; one whose last star does not; and one in
\* which a star that does not exist lies before one that does
Saves ==
    { [e |-> EveryStar, top |-> max_planets - 2,
       place |-> << <<0, 1>>, <<NumStars - 1, 0>>, <<NumStars - 1, 3>> >>],
      [e |-> AllButStar(NumStars - 1), top |-> max_planets - 2,
       place |-> << <<0, 0>>, <<0, 4>>, <<1, 4>> >>],
      [e |-> AllButStar(1), top |-> max_planets - 1,
       place |-> << <<0, 4>>, <<NumStars - 1, 0>> >>] }

SaveData(e, place, top) ==
    LET first == top - Len(place) + 1
        used == {i \in 1 .. Len(place) : e[place[i][1]] # 0}
        planetOf(o) == (o - Planet_block_offset) \div Planet_block_size
        planetByte(n, k) ==
            IF \E i \in used : first + i - 1 = n
            THEN LET i == CHOOSE i \in used : first + i - 1 = n
                 IN  CASE k = 0 -> 255
                       [] k = 1 -> 255
                       [] k = 2 -> place[i][1]
                       [] k = 3 -> place[i][2]
                       [] k = 4 -> 3
                       [] k = 5 -> 2
                       [] k = 6 -> 1
                       [] k = 8 -> 8
                       [] k = 10 -> 2
                       [] k = 11 -> 2
                       [] k = 13 -> 5
                       [] OTHER -> 0
            ELSE 170
        slotValue(s, pos) ==
            IF \E i \in used : place[i] = <<s, pos>>
            THEN first + (CHOOSE i \in used : place[i] = <<s, pos>>) - 1
            ELSE NoRef
        starByte(s, k) ==
            IF k = 0 THEN e[s]
            ELSE IF k >= planet_offset /\ k < planet_offset + 10
                 THEN LET pos == (k - planet_offset) \div 2
                          v == slotValue(s, pos)
                      IN  IF (k - planet_offset) % 2 = 0 THEN v % 256 ELSE v \div 256
                 ELSE 0
    IN  [o \in Offsets |->
            IF o < Planet_offset(max_planets)
            THEN planetByte(planetOf(o), (o - Planet_block_offset) % Planet_block_size)
            ELSE IF o < Star_block_offset THEN 0
            ELSE starByte((o - Star_block_offset) \div Star_block_size,
                          (o - Star_block_offset) % Star_block_size)]

LoadCall == Call("load", None, None, None, "", "none", None, None, None)

\* Game.__init__ on a save of the structural model
Init ==
    /\ \E save \in Saves : data = SaveData(save.e, save.place, save.top)
    /\ maxplanet = Game_init_maxplanet(data)
    /\ numplayers = 4
    /\ last = LoadCall
    /\ nops = 0

\* the positions and body types the calls are given: both ends of the
\* range of positions and one past it, every body type and one on each side
PosInputs == {-1, 0, 4, 5}
BtypeInputs == 0 .. 4

\* the planet views a caller can obtain from the stars
KnownPlanets(d) ==
    {n \in UNION {Star_planets(d, s) : s \in ModelStars} : ~Planet_init_raises(n)}

\* planet.position = pos
SetPosition ==
    \E n \in KnownPlanets(data), pos \in PosInputs :
        \E out \in {setposition(data, maxplanet, n, pos)},
           other \in {planet_at(data, Planet_starnum(data, n), pos)} :
            /\ data' = out.data
            /\ maxplanet' = out.maxplanet
            /\ last' = Call("setposition", n, pos, None, "", out.exc, out.ret,
                            other.ret, Planet_position(data, n))
            /\ UNCHANGED <<numplayers, nops>>

\* Star(game, snum).make_planet(pos, btype)
MakePlanet ==
    /\ maxplanet < MaxCounter
    /\ \E snum \in ModelStars, pos \in PosInputs, btype \in BtypeInputs :
        \E out \in {make_planet(data, maxplanet, snum, pos, btype)} :
            /\ data' = out.data
            /\ maxplanet' = out.maxplanet
            /\ last' = Call("make_planet", snum, pos, btype, "", out.exc, out.ret, None, None)
            /\ UNCHANGED <<numplayers, nops>>

Next == SetPosition \/ MakePlanet

Spec == Init /\ [][Next]_vars

(***************************************************************************)
(* The scalar fields of a planet record.  A setter's outcome is the        *)
(* exception it raised ("none" when it returned) and the buffer it left.   *)
(***************************************************************************)
SetOutcome(exc, d) == [exc |-> exc, data |-> d]

\* list.index(value): the 0-based index of a label in a table, None if absent
index(table, value) ==
    IF \E i \in 1 .. Len(table) : table[i] = value
    THEN (CHOOSE i \in 1 .. Len(table) : table[i] = value) - 1
    ELSE None

\* Planet._settype
settype(d, n, value) ==
    IF value \notin DOMAIN type2desc THEN SetOutcome("ValueError", d)
    ELSE SetOutcome("none", [d EXCEPT ![Planet_offset(n) + 4] = value])

\* the second binding of Planet.type is property(_gettype, None, ...): the
\* property that the class ends up with has no setter
type_fset == FALSE

\* planet.type = value
assign_type(d, n, value) ==
    IF type_fset THEN settype(d, n, value) ELSE SetOutcome("AttributeError", d)

\* Planet._settype_str: planet.type_str = value
settype_str(d, n, value) ==
    IF \E c \in DOMAIN type2desc : type2desc[c] = value
    THEN assign_type(d, n, CHOOSE c \in DOMAIN type2desc : type2desc[c] = value)
    ELSE SetOutcome("KeyError", d)

\* Planet._setfood
setfood(d, n, value) ==
    IF value < 0 \/ value > 255 THEN SetOutcome("ValueError", d)
    ELSE SetOutcome("none", [d EXCEPT ![Planet_offset(n) + 11] = value])

\* Planet._setterraform: the food is read, the difference of the typical
\* foods computed, the food stored, and then the terraform byte written
setterraform(d, n, value) ==
    IF ~(0 <= value /\ value < Len(terraform2desc)) THEN SetOutcome("ValueError", d)
    ELSE LET food == d[Planet_offset(n) + 11]
             terraform == d[Planet_offset(n) + 8]
         IN  IF terraform >= Len(terraform2food) THEN SetOutcome("IndexError", d)
             ELSE LET fed == setfood(d, n, food + terraform2food[value + 1]
                                                - terraform2food[terraform + 1])
                  IN  IF fed.exc # "none" THEN fed
                      ELSE SetOutcome("none", [fed.data EXCEPT ![Planet_offset(n) + 8] = value])

\* Planet._setterraform_str: a ValueError of the lookup or of the setter is
\* raised again as a ValueError, any other exception passes through
setterraform_str(d, n, value) ==
    IF index(terraform2desc, value) = None THEN SetOutcome("ValueError", d)
    ELSE setterraform(d, n, index(terraform2desc, value))

\* _setsize with the byte at 0xd always set to the typical value of the size
setsize_always_sync(d, n, value) ==
    IF value < 0 \/ value > 4 THEN SetOutcome("ValueError", d)
    ELSE LET oldsize == d[Planet_offset(n) + 5]
             d1 == [d EXCEPT ![Planet_offset(n) + 5] = value]
         IN  IF oldsize >= Len(size2blockd) THEN SetOutcome("IndexError", d1)
             ELSE SetOutcome("none", [d1 EXCEPT ![Planet_offset(n) + 13] = size2blockd[value + 1]])

\* Planet._setsize: the size byte is written before size2blockd[oldsize] is
\* looked up
setsize(d, n, value) ==
    IF value < 0 \/ value > 4 THEN SetOutcome("ValueError", d)
    ELSE LET oldsize == d[Planet_offset(n) + 5]
             d1 == [d EXCEPT ![Planet_offset(n) + 5] = value]
         IN  IF oldsize >= Len(size2blockd) THEN SetOutcome("IndexError", d1)
             ELSE IF d1[Planet_offset(n) + 13] = size2blockd[oldsize + 1]
                  THEN SetOutcome("none", [d1 EXCEPT ![Planet_offset(n) + 13] = size2blockd[value + 1]])
                  ELSE SetOutcome("none", d1)

\* Planet._setsize_str
setsize_str(d, n, value) ==
    IF index(size2desc, value) = None THEN SetOutcome("ValueError", d)
    ELSE setsize(d, n, index(size2desc, value))

\* Planet._setgravity
setgravity(d, n, value) ==
    IF ~(0 <= value /\ value <= 4) THEN SetOutcome("ValueError", d)
    ELSE SetOutcome("none", [d EXCEPT ![Planet_offset(n) + 6] = value])

\* Planet._setgravity_str
setgravity_str(d, n, value) ==
    IF index(gravity2desc, value) = None THEN SetOutcome("ValueError", d)
    ELSE setgravity(d, n, index(gravity2desc, value))

\* Planet._setrichness
setrichness(d, n, value) ==
    IF ~(0 <= value /\ value <= 4) THEN SetOutcome("ValueError", d)
    ELSE SetOutcome("none", [d EXCEPT ![Planet_offset(n) + 10] = value])

\* Planet._setrichness_str
setrichness_str(d, n, value) ==
    IF index(richness2desc, value) = None THEN SetOutcome("ValueError", d)
    ELSE setrichness(d, n, index(richness2desc, value))

\* Planet._setscenery
setscenery(d, n, value) ==
    IF ~(0 <= value /\ value <= 2) THEN SetOutcome("ValueError", d)
    ELSE SetOutcome("none", [d EXCEPT ![Planet_offset(n) + 9] = value])

(***************************************************************************)
(* The record model: one planet record and one unscanned star slot in      *)
(* every stored state of interest, and each setter, view constructor and   *)
(* planet_at call applied to it.                                           *)
(***************************************************************************)
\* the planet whose record the setters are applied to
ThePlanet == max_planets - 1

\* a save with planet ThePlanet at position 0 of star 0, and star 1 absent
RecordSave == SaveData(AllButStar(1), << <<0, 0>> >>, ThePlanet)

\* stored size, auxiliary byte 0xd, terraform and food of the record
RecordStates ==
    {[size |-> sz, blockd |-> bd, terraform |-> tf, food |-> fd] :
        sz \in {0, 3, 5}, bd \in {2, 7, 9}, tf \in {0, 9, 10}, fd \in {0, 2, 255}}

\* the two bytes of slot 0 of star 1 (low, high), and the player-count byte
ViewStates ==
    {[lo |-> b[1], hi |-> b[2], np |-> np] :
        b \in {<<103, 1>>, <<104, 1>>, <<254, 255>>, <<255, 255>>, <<255, 0>>, <<0, 255>>},
        np \in {0, 8, 9, 255}}

\* Game.__init__ on a save of the record model
InitRec ==
    /\ \/ \E r \in RecordStates :
            /\ data = [RecordSave EXCEPT ![Planet_offset(ThePlanet) + 5] = r.size,
                                         ![Planet_offset(ThePlanet) + 13] = r.blockd,
                                         ![Planet_offset(ThePlanet) + 8] = r.terraform,
                                         ![Planet_offset(ThePlanet) + 11] = r.food]
            /\ numplayers = 4
       \/ \E v \in ViewStates :
            /\ data = [RecordSave EXCEPT ![slot_offset(1, 0)] = v.lo,
                                         ![slot_offset(1, 0) + 1] = v.hi]
            /\ numplayers = v.np
    /\ maxplanet = Game_init_maxplanet(data)
    /\ last = LoadCall
    /\ nops = 0

AllLabels ==
    {type2desc[c] : c \in DOMAIN type2desc}
    \cup {terraform2desc[i] : i \in DOMAIN terraform2desc}
    \cup {size2desc[i] : i \in DOMAIN size2desc}
    \cup {gravity2desc[i] : i \in DOMAIN gravity2desc}
    \cup {richness2desc[i] : i \in DOMAIN richness2desc}

\* the texts the *_str setters are given: every label of every table, and
\* texts that are in no table
LabelInputs == AllLabels \cup {"", "Planet", "terran "}

\* a setter call on ThePlanet with an integer value
SetterCall(op, value, out) ==
    /\ nops < MaxOps
    /\ data' = out.data
    /\ last' = Call(op, ThePlanet, value, None, "", out.exc, None, None, None)
    /\ nops' = nops + 1
    /\ UNCHANGED <<maxplanet, numplayers>>

\* a *_str setter call on ThePlanet with a text
StrSetterCall(op, value, out) ==
    /\ nops < MaxOps
    /\ data' = out.data
    /\ last' = Call(op, ThePlanet, None, None, value, out.exc, None, None, None)
    /\ nops' = nops + 1
    /\ UNCHANGED <<maxplanet, numplayers>>

\* a view constructor call
ViewCall(op, number, raises) ==
    /\ nops < MaxOps
    /\ last' = Call(op, None, number, None, "",
                    IF raises THEN "ValueError" ELSE "none",
                    IF raises THEN None ELSE number, None, None)
    /\ nops' = nops + 1
    /\ UNCHANGED <<data, maxplanet, numplayers>>

AssignType ==
    \E value \in {0, 1, 3, 4} :
        \E out \in {assign_type(data, ThePlanet, value)} : SetterCall("type", value, out)

AssignTypeStr ==
    \E value \in LabelInputs :
        \E out \in {settype_str(data, ThePlanet, value)} : StrSetterCall("type_str", value, out)

AssignTerraform ==
    \E value \in -1 .. 10 :
        \E out \in {setterraform(data, ThePlanet, value)} : SetterCall("terraform", value, out)

AssignTerraformStr ==
    \E value \in LabelInputs :
        \E out \in {setterraform_str(data, ThePlanet, value)} : StrSetterCall("terraform_str", value, out)

AssignSize ==
    \E value \in -1 .. 5 :
        \E out \in {setsize(data, ThePlanet, value)} : SetterCall("size", value, out)

AssignSizeStr ==
    \E value \in LabelInputs :
        \E out \in {setsize_str(data, ThePlanet, value)} : StrSetterCall("size_str", value, out)

AssignFood ==
    \E value \in {-1, 0, 255, 256} :
        \E out \in {setfood(data, ThePlanet, value)} : SetterCall("food", value, out)

AssignGravity ==
    \E value \in {-1, 0, 2, 4, 5} :
        \E out \in {setgravity(data, ThePlanet, value)} : SetterCall("gravity", value, out)

AssignGravityStr ==
    \E value \in LabelInputs :
        \E out \in {setgravity_str(data, ThePlanet, value)} : StrSetterCall("gravity_str", value, out)

AssignRichness ==
    \E value \in {-1, 0, 4, 5} :
        \E out \in {setrichness(data, ThePlanet, value)} : SetterCall("richness", value, out)

AssignRichnessStr ==
    \E value \in LabelInputs :
        \E out \in {setrichness_str(data, ThePlanet, value)} : StrSetterCall("richness_str", value, out)

AssignScenery ==
    \E value \in {-1, 0, 2, 3} :
        \E out \in {setscenery(data, ThePlanet, value)} : SetterCall("scenery", value, out)

\* Star(game, number)
NewStar ==
    \E number \in {-1, 0, max_stars - 1, max_stars, max_stars + 1} :
        ViewCall("Star", number, Star_init_raises(number))

\* Planet(game, number)
NewPlanet ==
    \E number \in {-1, 0, max_planets - 1, max_planets, max_planets + 1} :
        ViewCall("Planet", number, Planet_init_raises(number))

\* Colony(game, number)
NewColony ==
    \E number \in {-1, 0, max_colonies - 1, max_colonies, max_colonies + 1} :
        ViewCall("Colony", number, Colony_init_raises(number))

\* Player(game, number)
NewPlayer ==
    \E number \in {-1, 0, max_players - 1, max_players, max_players + 1, 255} :
        ViewCall("Player", number, Player_init_raises(numplayers, number))

\* Star(game, snum).planet_at(pos)
PlanetAt ==
    /\ nops < MaxOps
    /\ \E snum \in {0, 1}, pos \in {-1, 0, 1, 4, 5} :
        \E out \in {planet_at(data, snum, pos)} :
            last' = Call("planet_at", snum, pos, None, "", out.exc, out.ret, None, None)
    /\ nops' = nops + 1
    /\ UNCHANGED <<data, maxplanet, numplayers>>

NextRec ==
    \/ AssignType \/ AssignTypeStr
    \/ AssignTerraform \/ AssignTerraformStr
    \/ AssignSize \/ AssignSizeStr
    \/ AssignFood
    \/ AssignGravity \/ AssignGravityStr
    \/ AssignRichness \/ AssignRichnessStr
    \/ AssignScenery
    \/ NewStar \/ NewPlanet \/ NewColony \/ NewPlayer
    \/ PlanetAt

SpecRec == InitRec /\ [][NextRec]_vars

(***************************************************************************)
(* Properties of the structural operations.                                *)
(***************************************************************************)
\* the two-byte slot pos of star snum
slot(d, snum, pos) == short_at_offset(d, slot_offset(snum, pos))

\* C1: position consistency.  For every planet P that a slot of a star S
\* refers to, S's slot at P's stored position holds P's number and no other
\* slot of S does, after any sequence of position assignments and
\* make_planet calls on a loaded save in which this holds.
PositionConsistency ==
    \A s \in ModelStars, pos \in Positions :
        LET n == slot(data, s, pos)
        IN  n # NoRef =>
                /\ n \in ModelPlanets
                /\ Planet_position(data, n) \in Positions
                /\ slot(data, s, Planet_position(data, n)) = n
                /\ \A q \in Positions \ {Planet_position(data, n)} : slot(data, s, q) # n

\* C2: swap symmetry.  When planet a is at position p and planet b at
\* position q # p of the same star, a.position = q returns with a at q and b
\* at p, in the planets' position bytes and in the star's table.
SwapSymmetry ==
    [][LET a == last'.self
           q == last'.arg
           s == Planet_starnum(data, a)
           p == Planet_position(data, a)
           b == slot(data, s, q)
       IN  (/\ last'.op = "setposition"
            /\ s \in ModelStars /\ p \in Positions /\ q \in Positions
            /\ p # q
            /\ slot(data, s, p) = a
            /\ b \in ModelPlanets
            /\ Planet_position(data, b) = q)
           => /\ last'.exc = "none"
              /\ Planet_position(data', a) = q
              /\ Planet_position(data', b) = p
              /\ slot(data', s, q) = a
              /\ slot(data', s, p) = b]_vars

\* a position assignment has exchanged two planets of a star
SwapDone ==
    /\ last.op = "setposition" /\ last.exc = "none"
    /\ last.other # None /\ last.other # last.self
    /\ last.arg # last.oldpos
    /\ Planet_position(data, last.self) = last.arg
    /\ Planet_position(data, last.other) = last.oldpos
    /\ slot(data, Planet_starnum(data, last.self), last.arg) = last.self
    /\ slot(data, Planet_starnum(data, last.self), last.oldpos) = last.other

\* C3: allocation monotonicity.  A make_planet call that returns has raised
\* Game.maxplanet by exactly 1, returns the planet of that number, and
\* planet_at(pos) of the star then returns that planet, whose type byte is
\* the body type asked for.
AllocationMonotonic ==
    [][(last'.op = "make_planet" /\ last'.exc = "none")
          => /\ maxplanet' = maxplanet + 1
             /\ last'.ret = maxplanet'
             /\ planet_at(data', last'.self, last'.arg) = [exc |-> "none", ret |-> maxplanet']
             /\ data'[Planet_offset(maxplanet') + 4] = last'.btype]_vars

\* make_planet has returned a new planet
PlanetMade ==
    /\ last.op = "make_planet" /\ last.exc = "none"
    /\ last.ret = maxplanet
    /\ planet_at(data, last.self, last.arg).ret = last.ret
    /\ data[Planet_offset(last.ret) + 4] = last.btype

\* C4: failure atomicity.  When make_planet or the position setter raises,
\* every byte of the buffer and Game.maxplanet are as before the call.
FailureAtomicity ==
    [][(last'.op \in {"make_planet", "setposition"} /\ last'.exc # "none")
          => (data' = data /\ maxplanet' = maxplanet)]_vars

\* the highest planet number in the table of a star that exists
HighestPlanet(d) ==
    SetMax(UNION {Star_planets(d, s) : s \in {x \in ModelStars : Star_exists(d, x)}})

\* C9: at load, Game.maxplanet is the highest planet number found in the
\* planet table of any star that exists, wherever the stars that do not
\* exist lie.
LoadFindsHighest ==
    last.op = "load" => maxplanet = HighestPlanet(data)

\* C10: moving to an empty position.  When planet P at position p of star S
\* is assigned position q # p and slot q of S is empty, then P's position
\* byte is q, slot q holds P, slot p is empty, and no other byte of the
\* buffer nor maxplanet has changed; when q = p nothing changes.
MoveToEmpty ==
    [][LET n == last'.self
           q == last'.arg
           s == Planet_starnum(data, n)
           p == Planet_position(data, n)
       IN  (/\ last'.op = "setposition"
            /\ s \in ModelStars /\ p \in Positions /\ q \in Positions
            /\ slot(data, s, p) = n)
           => IF q = p
              THEN data' = data /\ maxplanet' = maxplanet
              ELSE slot(data, s, q) = NoRef =>
                     /\ last'.exc = "none"
                     /\ Planet_position(data', n) = q
                     /\ slot(data', s, q) = n
                     /\ slot(data', s, p) = NoRef
                     /\ maxplanet' = maxplanet
                     /\ \A o \in Offsets \ {Planet_offset(n) + 3,
                                            slot_offset(s, q), slot_offset(s, q) + 1,
                                            slot_offset(s, p), slot_offset(s, p) + 1} :
                           data'[o] = data[o]]_vars

\* a position assignment has moved a planet to a position that was empty
MovedToEmpty ==
    /\ last.op = "setposition" /\ last.exc = "none"
    /\ last.other = None
    /\ last.arg # last.oldpos
    /\ Planet_position(data, last.self) = last.arg
    /\ slot(data, Planet_starnum(data, last.self), last.arg) = last.self
    /\ slot(data, Planet_starnum(data, last.self), last.oldpos) = NoRef

(***************************************************************************)
(* Properties of the record model.                                         *)
(***************************************************************************)
\* the 16-bit value stored in the slot that the last planet_at call read
SlotRead == data[slot_offset(last.self, last.arg)]
            + 256 * data[slot_offset(last.self, last.arg) + 1]

\* C5 as stated: sentinel law.  planet_at returns None when the slot holds
\* 0xFFFF, and for every other 16-bit value v of the slot it returns a
\* planet view of number v.
SentinelLaw ==
    (last.op = "planet_at" /\ last.arg \in Positions)
    => IF SlotRead = NoRef
       THEN last.exc = "none" /\ last.ret = None
       ELSE last.exc = "none" /\ last.ret = SlotRead

\* C5 as amended: planet_at returns None when the slot holds 0xFFFF, a
\* planet view of number v when the slot holds v in 0..359, and raises
\* ValueError when the slot holds a value in 360..0xFFFE.
SentinelLawInRange ==
    (last.op = "planet_at" /\ last.arg \in Positions)
    => IF SlotRead = NoRef
       THEN last.exc = "none" /\ last.ret = None
       ELSE IF SlotRead <= 359
            THEN last.exc = "none" /\ last.ret = SlotRead
            ELSE last.exc = "ValueError"

\* planet_at has read a slot that holds neither the sentinel nor the number
\* of a planet record
PlanetAtBeyondTable ==
    /\ last.op = "planet_at" /\ last.arg \in Positions
    /\ SlotRead # NoRef /\ SlotRead >= 360
    /\ last.exc = "ValueError"

ScalarSetters == {"type", "terraform", "size", "gravity", "richness", "food", "scenery"}

\* C6: setter atomicity.  Each scalar setter of a planet either completes
\* its writes or raises with the buffer unchanged, whatever the record
\* holds and whatever it is given.
SetterAtomicity ==
    [][(last'.op \in ScalarSetters /\ last'.exc # "none") => data' = data]_vars

StrSetters == {"type_str", "terraform_str", "size_str", "gravity_str", "richness_str"}

\* the code that a field's label table gives a text, None if it gives none
CodeOfLabel(op, text) ==
    CASE op = "type_str" ->
            IF \E c \in {1, 2, 3} : type2desc[c] = text
            THEN CHOOSE c \in {1, 2, 3} : type2desc[c] = text ELSE None
      [] op = "terraform_str" -> index(terraform2desc, text)
      [] op = "size_str" -> index(size2desc, text)
      [] op = "gravity_str" -> index(gravity2desc, text)
      [] op = "richness_str" -> index(richness2desc, text)

\* the byte of the planet record that holds a labelled field
FieldByte(op) ==
    CASE op = "type_str" -> 4
      [] op = "terraform_str" -> 8
      [] op = "size_str" -> 5
      [] op = "gravity_str" -> 6
      [] op = "richness_str" -> 10

\* C7: enum bijection.  Assigning the label of a valid code c through a
\* field's *_str setter succeeds and leaves the field's stored code equal to
\* c; assigning a text that is not in the field's table fails with the
\* invalid-label error (ValueError).
EnumBijection ==
    last.op \in StrSetters
    => IF CodeOfLabel(last.op, last.label) # None
       THEN /\ last.exc = "none"
            /\ data[Planet_offset(last.self) + FieldByte(last.op)] = CodeOfLabel(last.op, last.label)
       ELSE last.exc = "ValueError"

\* C8: boundary rejection.  food = 255 succeeds and food = 256 fails;
\* gravity = 4 succeeds and gravity = 5 fails; a Star, Planet, Colony or
\* Player view of a number at or beyond 72, 360, 360, 8 fails with a range
\* error, whatever the buffer holds.
BoundaryRejection ==
    /\ (last.op = "food" /\ last.arg = 255)
          => (last.exc = "none" /\ data[Planet_offset(last.self) + 11] = 255)
    /\ (last.op = "food" /\ last.arg = 256) => last.exc = "ValueError"
    /\ (last.op = "gravity" /\ last.arg = 4)
          => (last.exc = "none" /\ data[Planet_offset(last.self) + 6] = 4)
    /\ (last.op = "gravity" /\ last.arg = 5) => last.exc = "ValueError"
    /\ (last.op = "Star" /\ last.arg >= 72) => last.exc = "ValueError"
    /\ (last.op = "Planet" /\ last.arg >= 360) => last.exc = "ValueError"
    /\ (last.op = "Colony" /\ last.arg >= 360) => last.exc = "ValueError"
    /\ (last.op = "Player" /\ last.arg >= 8) => last.exc = "ValueError"

(***************************************************************************)
(* The record that make_planet writes.                                     *)
(***************************************************************************)
\* byte k of the record of the planet that the last make_planet call returned
NewByte(k) == data[Planet_offset(last.ret) + k]

\* the fields of the default record on which the claim and the code agree:
\* no colony, the star, the position, the body type, size large, gravity
\* medium, richness abundant, and the scenery drawn for (pos, btype, star)
DefaultFields ==
    /\ NewByte(0) = 255 /\ NewByte(1) = 255
    /\ NewByte(2) = last.self
    /\ NewByte(3) = last.arg
    /\ NewByte(4) = last.btype
    /\ NewByte(5) = 3
    /\ NewByte(6) = 1
    /\ NewByte(10) = 2
    /\ NewByte(9) \in {0, 1, 2}
    /\ NewByte(9) = randrange3[last.arg + last.btype * 5 + last.self * 15 + 1]

\* C11 as stated: a make_planet call that returns has written the default
\* fields, a terraform byte (byte 8) taken from the size lookup table, and 0
\* in every other byte of the record.
DefaultRecordAsStated ==
    (last.op = "make_planet" /\ last.exc = "none")
    => /\ DefaultFields
       /\ NewByte(8) = size2blockd[NewByte(5) + 1]
       /\ \A k \in {7, 11, 12, 13, 14, 15, 16} : NewByte(k) = 0

\* C11 as amended: a make_planet call that returns has written the default
\* fields, terraform byte 2 (barren), the auxiliary byte 0xd taken from the
\* size lookup table (7 for large), and 0 in every other byte of the record.
DefaultRecord ==
    (last.op = "make_planet" /\ last.exc = "none")
    => /\ DefaultFields
       /\ NewByte(8) = 2
       /\ NewByte(13) = size2blockd[NewByte(5) + 1]
       /\ NewByte(13) = 7
       /\ \A k \in {7, 11, 12, 14, 15, 16} : NewByte(k) = 0

\* make_planet has returned a planet whose record is in the buffer
DefaultRecordWritten ==
    /\ last.op = "make_planet" /\ last.exc = "none"
    /\ last.ret \in ModelPlanets
    /\ short_at_offset(data, slot_offset(last.self, last.arg)) = last.ret
    /\ NewByte(4) = last.btype
    /\ NewByte(13) = 7

(***************************************************************************)
(* The terraform and size setters.                                         *)
(***************************************************************************)
\* C12: terraform setter.  For a planet with stored terraform t in 0..9 and
\* stored food f, assigning terraform = v with v in 0..9 succeeds, stores v
\* in the terraform byte and changes the food to
\* f + terraform2food[v] - terraform2food[t]; a value outside 0..9 fails
\* with a range error (ValueError).
TerraformSetter ==
    [][LET n == last'.self
           v == last'.arg
           t == data[Planet_offset(n) + 8]
           f == data[Planet_offset(n) + 11]
       IN  (last'.op = "terraform" /\ t \in 0 .. 9 /\ f \in 0 .. 255)
           => IF v \in 0 .. 9
              THEN /\ last'.exc = "none"
                   /\ data'[Planet_offset(n) + 8] = v
                   /\ data'[Planet_offset(n) + 11]
                        = f + terraform2food[v + 1] - terraform2food[t + 1]
              ELSE last'.exc = "ValueError"]_vars

\* C13: size setter.  Assigning size = v with v in 0..4 stores v in the size
\* byte, and sets the auxiliary byte 0xd to size2blockd[v] if and only if
\* that byte equalled size2blockd[old size] before the call; otherwise the
\* auxiliary byte is left unchanged.
SizeSetter ==
    [][LET n == last'.self
           v == last'.arg
           oldsize == data[Planet_offset(n) + 5]
           blockd == data[Planet_offset(n) + 13]
       IN  (last'.op = "size" /\ v \in 0 .. 4)
           => /\ data'[Planet_offset(n) + 5] = v
              /\ IF oldsize \in 0 .. 4 /\ blockd = size2blockd[oldsize + 1]
                 THEN data'[Planet_offset(n) + 13] = size2blockd[v + 1]
                 ELSE data'[Planet_offset(n) + 13] = blockd
              /\ oldsize \in 0 .. 4 => last'.exc = "none"]_vars

\* a size assignment has moved the auxiliary byte to the typical value of
\* the new size (10, for huge, is the auxiliary byte of no loaded record)
SizeSetSynced ==
    /\ last.op = "size" /\ last.exc = "none"
    /\ last.arg = 4
    /\ data[Planet_offset(last.self) + 5] = 4
    /\ data[Planet_offset(last.self) + 13] = size2blockd[4 + 1]

====
